---- MODULE Spec2Model ----
(***************************************************************************)
(* Event-driven backtester of pyBackTester: the bar feeds                  *)
(* (HistoricCSVDataHandler, YahooFinanceDataHandler), the Portfolio        *)
(* ledger (Portfolio / NaivePortfolio), the SimulatedExecutionHandler and  *)
(* the dispatcher loop Backtester._run_backtest.                           *)
(*                                                                         *)
(* Floats are modelled by integers; the float NaN that pandas' reindex     *)
(* puts in a padded row without an earlier observation is the value NaN,   *)
(* and FAdd/FSub/FMul propagate it as IEEE arithmetic does.                *)
(***************************************************************************)
EXTENDS Integers, Sequences, FiniteSets, TLC

\* ------------------------------------------------------------------ bounds
\* Timestamps of the calendar the input series are drawn from: 1..MaxT.
MaxT == 2
\* Signals the abstract strategy may emit over one run.
MaxSignals == 1
\* Calls a client of the portfolio alone makes on it.
MaxCalls == 2
\* Bars of the longest series of a single-symbol scenario run.
MaxBars == 27

\* --------------------------------------------------------- program constants
InitialCapital == 100000
OrderQuantity == 100
FallbackPrice == 75
SignalStrength == 1
ShortWindow == 9
LongWindow == 26
StartDate == 0
\* Wall-clock readings, far from every bar timestamp.
FirstStart == 1000
NaN == -999999

AllSymbols == {"A", "B"}
Directions == {"LONG", "SHORT", "EXIT"}
Feeds == {"csv", "yahoo"}
Strategies == {"any", "bah"}
Commissions == {0, 1}

VARIABLES
    feed,                \* which DataHandler class the Backtester was given
    strategy,            \* which Strategy class the Backtester was given
    fill_commission,     \* the commission FillEvent gives every fill
    raw,                 \* per symbol, the series the data source returns
    symbol_data,         \* DataHandler.symbol_data after construction
    latest_symbol_data,  \* DataHandler.latest_symbol_data
    continue_backtest,   \* DataHandler.continue_backtest
    bar_iter,            \* csv: per symbol, rows the iterrows() iterator has yielded
    current_index,       \* yahoo: YahooFinanceDataHandler.current_index
    events,              \* Backtester.events (queue.Queue)
    all_positions,       \* Portfolio.all_positions
    all_holdings,        \* Portfolio.all_holdings
    current_positions,   \* Portfolio.current_positions
    current_holdings,    \* Portfolio.current_holdings
    all_trades,          \* NaivePortfolio.all_trades
    last_fill_price,     \* NaivePortfolio._last_fill_price
    signals, orders, fills,  \* Backtester counters
    bought,              \* BuyAndHoldStrategy.bought
    pc,                  \* position of _run_backtest
    tick,                \* history: Market events enqueued so far
    emitted,             \* history: signals the strategy has emitted so far
    enq_log,             \* history: every event put on the queue, in order
    deq_log,             \* history: every event taken off the queue, in order
    call,                \* the last get_latest_bars call of a client of the feed
    bars_attached,       \* SimulatedExecutionHandler.bars is not None
    stats,               \* what _output_performance got from the PerformanceAnalyzer
    started,             \* the wall clock when the run began
    previous             \* what an earlier run on the same inputs left behind

\* Backtester.symbol_list, an input of the run: the symbols a series was asked
\* for, in order.
Symbols == DOMAIN raw
symbol_list == IF "B" \in Symbols THEN <<"A", "B">> ELSE <<"A">>

\* What the engine loop never assigns.
envVars == <<call, bars_attached, stats, started, previous>>
feedVars == <<feed, raw, symbol_data, latest_symbol_data, continue_backtest,
              bar_iter, current_index, envVars>>
portVars == <<all_positions, all_holdings, current_positions, current_holdings,
              all_trades, last_fill_price>>
vars == <<feed, strategy, fill_commission, raw, symbol_data, latest_symbol_data,
          continue_backtest, bar_iter, current_index, events, all_positions,
          all_holdings, current_positions, current_holdings, all_trades,
          last_fill_price, signals, orders, fills, bought, pc, tick, emitted,
          enq_log, deq_log, call, bars_attached, stats, started, previous>>

\* ------------------------------------------------------------ float helpers
FAdd(a, b) == IF a = NaN \/ b = NaN THEN NaN ELSE a + b
FSub(a, b) == IF a = NaN \/ b = NaN THEN NaN ELSE a - b
FMul(a, b) == IF a = NaN \/ b = NaN THEN NaN ELSE a * b

Min(a, b) == IF a <= b THEN a ELSE b
Max(a, b) == IF a >= b THEN a ELSE b

RECURSIVE SortedSeq(_)
SortedSeq(S) ==
    IF S = {} THEN <<>>
    ELSE LET m == CHOOSE x \in S : \A y \in S : x <= y
         IN  <<m>> \o SortedSeq(S \ {m})

\* ------------------------------------------------------------- input series
\* The prices of the input series: close and adjusted close differ, and both
\* rise and fall along the calendar.
ClosePrice(s, t) == IF s = "A" THEN 20 + ((5 * t) % 7) ELSE 40 + ((3 * t) % 5)
AdjPrice(s, t) == IF s = "A" THEN ClosePrice(s, t) - 1 ELSE ClosePrice(s, t) - 2

Bar(s, t) == [datetime |-> t, close |-> ClosePrice(s, t), adj_close |-> AdjPrice(s, t)]
NaNBar(t) == [datetime |-> t, close |-> NaN, adj_close |-> NaN]

\* A series as the data source returns it: sorted by timestamp.
Series(s, obs) == LET ts == SortedSeq(obs) IN [i \in 1..Len(ts) |-> Bar(s, ts[i])]

Timestamps(series) == {series[i].datetime : i \in 1..Len(series)}

\* ------------------------------------------------- HistoricCSVDataHandler
\* _open_convert_csv_files: comb_index starts as the first symbol's index; the
\* result of comb_index.union(...) for the later symbols is discarded.
CombIndex(r) == Timestamps(r[symbol_list[1]])

\* reindex(index=comb_index, method='pad'): the row at t is the last observation
\* at or before t, stamped t; NaN where there is none.
PadBar(series, t) ==
    LET earlier == {i \in 1..Len(series) : series[i].datetime <= t}
    IN  IF earlier = {} THEN NaNBar(t)
        ELSE LET last == CHOOSE i \in earlier : \A j \in earlier : j <= i
             IN  [series[last] EXCEPT !.datetime = t]

CsvSymbolData(r) ==
    LET idx == SortedSeq(CombIndex(r))
    IN  [s \in Symbols |-> [i \in 1..Len(idx) |-> PadBar(r[s], idx[i])]]

\* ------------------------------------------------ YahooFinanceDataHandler
\* _fetch_data: a symbol whose history is empty is skipped (continue): it gets
\* no entry in symbol_data and none in latest_symbol_data.
Fetched(r, s) == r[s] # <<>>

YahooSymbolData(r) == [s \in Symbols |-> r[s]]

\* A yahoo handler that gave every symbol of symbol_list a key.
HasKey_tracked(s) == s \in Symbols
\* Whether latest_symbol_data has the key s: csv, every symbol of symbol_list;
\* yahoo, every symbol of symbol_list that was fetched.
HasKey(s) == s \in Symbols /\ (feed = "csv" \/ Fetched(raw, s))

\* bars_list[-N:] of Python: the last N elements, the whole list when N = 0 or
\* N exceeds its length.
LastN(seq, N) ==
    IF N = 0 \/ N >= Len(seq) THEN seq
    ELSE SubSeq(seq, Len(seq) - N + 1, Len(seq))

\* get_latest_bars(symbol, N) where the key exists; it raises KeyError otherwise.
get_latest_bars(s, N) == LastN(latest_symbol_data[s], N)

\* One call get_latest_bars(s, N) as its caller sees it: the KeyError of a
\* missing key is re-raised, otherwise the bars are returned.
NoCall == [symbol |-> "-", N |-> 0, raised |-> FALSE, bars |-> <<>>]
\* A get_latest_bars that swallows the KeyError and returns no bars.
LatestBarsCall_empty(s, N) ==
    IF HasKey(s)
    THEN [symbol |-> s, N |-> N, raised |-> FALSE, bars |-> get_latest_bars(s, N)]
    ELSE [symbol |-> s, N |-> N, raised |-> FALSE, bars |-> <<>>]
LatestBarsCall(s, N) ==
    IF HasKey(s)
    THEN [symbol |-> s, N |-> N, raised |-> FALSE, bars |-> get_latest_bars(s, N)]
    ELSE [symbol |-> s, N |-> N, raised |-> TRUE, bars |-> <<>>]

\* ------------------------------------------------------------------ events
\* The events of event.py, all with the same fields so that they share the
\* queue; bar is history only: the tick of the Market event an event stems from.
\* Market and Order carry no timestamp (datetime 0).
MarketEvent(b) ==
    [type |-> "MARKET", symbol |-> "-", datetime |-> 0, direction |-> "-",
     strength |-> 0, quantity |-> 0, order_type |-> "-", fill_cost |-> 0,
     commission |-> 0, bar |-> b]
SignalEvent(s, ts, d, x, b) ==
    [type |-> "SIGNAL", symbol |-> s, datetime |-> ts, direction |-> d,
     strength |-> x, quantity |-> 0, order_type |-> "-", fill_cost |-> 0,
     commission |-> 0, bar |-> b]
OrderEvent(s, ot, q, d, b) ==
    [type |-> "ORDER", symbol |-> s, datetime |-> 0, direction |-> d,
     strength |-> 0, quantity |-> q, order_type |-> ot, fill_cost |-> 0,
     commission |-> 0, bar |-> b]
FillEvent(ts, s, q, d, cost, b) ==
    [type |-> "FILL", symbol |-> s, datetime |-> ts, direction |-> d,
     strength |-> 0, quantity |-> q, order_type |-> "-", fill_cost |-> cost,
     commission |-> fill_commission, bar |-> b]

\* datetime.datetime.utcnow(): the wall clock, which stood at `started` when
\* the run began and has moved on by one unit with every event put since;
\* utcnow(k) is the reading once k more events have been put.
utcnow(k) == started + Len(enq_log) + k

\* queue.Queue: put appends, get(False) takes the oldest element.
QPut(q, e) == Append(q, e)
\* A get that takes the newest element instead (a LIFO queue).
QFront_newest(q) == q[Len(q)]
QFront(q) == Head(q)
QRest(q) == Tail(q)
QEmpty(q) == q = <<>>

\* ------------------------------------------------------------- update_bars
\* HistoricCSVDataHandler.update_bars: next() on every symbol's iterator; a
\* StopIteration clears continue_backtest.
CsvExhausted(s) == bar_iter[s] >= Len(symbol_data[s])

CsvUpdateBars ==
    /\ latest_symbol_data' =
         [s \in Symbols |->
            IF CsvExhausted(s) THEN latest_symbol_data[s]
            ELSE Append(latest_symbol_data[s], symbol_data[s][bar_iter[s] + 1])]
    /\ bar_iter' = [s \in Symbols |-> IF CsvExhausted(s) THEN bar_iter[s] ELSE bar_iter[s] + 1]
    /\ continue_backtest' = ~(\E s \in Symbols : CsvExhausted(s))
    /\ UNCHANGED current_index

\* YahooFinanceDataHandler.update_bars.
YahooHasRow(s) == Fetched(raw, s) /\ current_index < Len(symbol_data[s])

YahooUpdateBars ==
    IF \A s \in Symbols : ~Fetched(raw, s)
    THEN /\ continue_backtest' = FALSE
         /\ UNCHANGED <<latest_symbol_data, current_index, bar_iter>>
    ELSE /\ latest_symbol_data' =
              [s \in Symbols |->
                 IF YahooHasRow(s)
                 THEN Append(latest_symbol_data[s], symbol_data[s][current_index + 1])
                 ELSE latest_symbol_data[s]]
         /\ current_index' = current_index + 1
         /\ continue_backtest' = (\E s \in Symbols : YahooHasRow(s))
         /\ UNCHANGED bar_iter

\* update_bars of the handler in use, and the MarketEvent it puts when
\* continue_backtest is (still) set.
update_bars ==
    /\ IF feed = "csv" THEN CsvUpdateBars ELSE YahooUpdateBars
    /\ IF continue_backtest'
       THEN /\ events' = QPut(events, MarketEvent(tick + 1))
            /\ enq_log' = Append(enq_log, MarketEvent(tick + 1))
            /\ tick' = tick + 1
       ELSE UNCHANGED <<events, enq_log, tick>>
    /\ UNCHANGED <<feed, raw, symbol_data, envVars>>

\* ---------------------------------------------------------------- strategy
\* What one call of Strategy.calculate_signals does: the signals it puts, in
\* order, whether it raised, and the strategy's own state afterwards.
SignalChoices == [symbol : Symbols, direction : Directions]

\* The signals the abstract strategy may emit over one run: one more where a
\* single symbol is tracked.
SignalBudget == IF Symbols = {"A"} THEN MaxSignals + 1 ELSE MaxSignals

SeqsUpTo(n) == UNION {[1..k -> SignalChoices] : k \in 0..n}

\* A Strategy in general (the contract of strategy.py; MockStrategy of test.py
\* is one): it puts any finite sequence of signals and reads no bars.
AnyOutcomes ==
    {[sigs |-> q, raised |-> FALSE, bought |-> bought] :
        q \in SeqsUpTo(Max(0, SignalBudget - emitted))}

\* BuyAndHoldStrategy.calculate_signals, from symbol_list[i] on.
RECURSIVE BahRun(_, _)
BahRun(i, out) ==
    IF i > Len(symbol_list) THEN out
    ELSE LET s == symbol_list[i]
         IN  IF ~HasKey(s) THEN [out EXCEPT !.raised = TRUE]
             ELSE IF Len(get_latest_bars(s, 1)) > 0 /\ out.bought[s] = FALSE
             THEN BahRun(i + 1,
                         [out EXCEPT !.sigs = Append(@, [symbol |-> s, direction |-> "LONG"]),
                                     !.bought[s] = TRUE])
             ELSE BahRun(i + 1, out)

BahOutcomes == {BahRun(1, [sigs |-> <<>>, raised |-> FALSE, bought |-> bought])}

\* The sum of the adjusted closes of a list of bars (NaN if one is NaN).
RECURSIVE SumAdjClose(_)
SumAdjClose(bars) ==
    IF bars = <<>> THEN 0 ELSE FAdd(Head(bars).adj_close, SumAdjClose(Tail(bars)))

\* A comparison that also holds for equal means.
MeanGreater_or_equal(a, b) ==
    LET sa == SumAdjClose(a)
        sb == SumAdjClose(b)
    IN  sa # NaN /\ sb # NaN /\ sa * Len(b) >= sb * Len(a)
\* np.mean(short) > np.mean(long), on the sums; a comparison with NaN is false.
MeanGreater(a, b) ==
    LET sa == SumAdjClose(a)
        sb == SumAdjClose(b)
    IN  sa # NaN /\ sb # NaN /\ sa * Len(b) > sb * Len(a)

\* A moving-average cross that starts as soon as the short window is full.
RECURSIVE MacRun_short_window(_, _)
MacRun_short_window(i, out) ==
    IF i > Len(symbol_list) THEN out
    ELSE LET s == symbol_list[i]
         IN  IF ~HasKey(s) THEN [out EXCEPT !.raised = TRUE]
             ELSE LET bars == get_latest_bars(s, LongWindow)
                      short == LastN(bars, ShortWindow)
                  IN  IF Len(bars) >= ShortWindow /\ MeanGreater(short, bars)
                         /\ out.bought[s] = FALSE
                      THEN MacRun_short_window(i + 1,
                               [out EXCEPT
                                  !.sigs = Append(@, [symbol |-> s, direction |-> "LONG"]),
                                  !.bought[s] = TRUE])
                      ELSE MacRun_short_window(i + 1, out)

\* MovingAverageCrossStrategy.calculate_signals, from symbol_list[i] on;
\* bought[s] is TRUE for 'LONG' and FALSE for 'OUT'.
RECURSIVE MacRun(_, _)
MacRun(i, out) ==
    IF i > Len(symbol_list) THEN out
    ELSE LET s == symbol_list[i]
         IN  IF ~HasKey(s) THEN [out EXCEPT !.raised = TRUE]
             ELSE LET bars == get_latest_bars(s, LongWindow)
                      short == LastN(bars, ShortWindow)
                      long == LastN(bars, LongWindow)
                  IN  IF Len(bars) >= LongWindow
                      THEN IF MeanGreater(short, long) /\ out.bought[s] = FALSE
                           THEN MacRun(i + 1,
                                    [out EXCEPT
                                       !.sigs = Append(@, [symbol |-> s, direction |-> "LONG"]),
                                       !.bought[s] = TRUE])
                           ELSE IF MeanGreater(long, short) /\ out.bought[s] = TRUE
                           THEN MacRun(i + 1,
                                    [out EXCEPT
                                       !.sigs = Append(@, [symbol |-> s, direction |-> "EXIT"]),
                                       !.bought[s] = FALSE])
                           ELSE MacRun(i + 1, out)
                      ELSE MacRun(i + 1, out)

MacOutcomes == {MacRun(1, [sigs |-> <<>>, raised |-> FALSE, bought |-> bought])}

StrategyOutcomes ==
    IF strategy = "bah" THEN BahOutcomes
    ELSE IF strategy = "mac" THEN MacOutcomes
    ELSE AnyOutcomes

\* Every strategy of the repository gives its signals the strength 1.0.
SignalEvents(sigs, b) ==
    [i \in 1..Len(sigs) |->
        SignalEvent(sigs[i].symbol, utcnow(i - 1), sigs[i].direction,
                    SignalStrength, b)]

\* --------------------------------------------------------------- Portfolio
\* construct_all_positions / construct_all_holdings / construct_current_holdings
SeedPositions == [datetime |-> StartDate, pos |-> [s \in Symbols |-> 0]]
SeedHoldings ==
    [datetime |-> StartDate, value |-> [s \in Symbols |-> 0],
     cash |-> InitialCapital, commission |-> 0, total |-> InitialCapital]
SeedCurrentHoldings ==
    [cash |-> InitialCapital, commission |-> 0, total |-> InitialCapital]

\* A position row left as initialised, dp[s] = 0.
PositionRow_zero(ts) == [datetime |-> ts, pos |-> [s \in Symbols |-> 0]]
\* update_timeindex, the position row: dp[s] = current_positions[s].
PositionRow(ts) == [datetime |-> ts, pos |-> [s \in Symbols |-> current_positions[s]]]

\* update_timeindex, one symbol's market value: position times the adjusted
\* close of its latest bar; the row keeps 0 for a symbol without bars.
MarketValue_close(s) ==
    LET bars == get_latest_bars(s, 1)
    IN  IF bars # <<>> THEN FMul(current_positions[s], bars[1].close) ELSE 0
MarketValue(s) ==
    LET bars == get_latest_bars(s, 1)
    IN  IF bars # <<>> THEN FMul(current_positions[s], bars[1].adj_close) ELSE 0

RECURSIVE SumMarketValues(_)
SumMarketValues(i) ==
    IF i > Len(symbol_list) THEN 0
    ELSE FAdd(MarketValue(symbol_list[i]), SumMarketValues(i + 1))

TotalValue ==
    FAdd(FSub(current_holdings.cash, current_holdings.commission), SumMarketValues(1))

\* A holdings row stamped with the wall clock instead of the bar's timestamp.
HoldingsRow_wall_clock(ts) ==
    [datetime |-> utcnow(0), value |-> [s \in Symbols |-> MarketValue(s)],
     cash |-> current_holdings.cash, commission |-> current_holdings.commission,
     total |-> TotalValue]
HoldingsRow(ts) ==
    [datetime |-> ts, value |-> [s \in Symbols |-> MarketValue(s)],
     cash |-> current_holdings.cash, commission |-> current_holdings.commission,
     total |-> TotalValue]

\* all_positions.append(dp), all_holdings.append(dh)
LedgerAppend_overwrite(ledger, row) == [ledger EXCEPT ![Len(ledger)] = row]
LedgerAppend(ledger, row) == Append(ledger, row)

\* The first lookup of update_timeindex, get_latest_bars(symbol_list[0]), raises.
TimeindexFirstRaises == ~HasKey(symbol_list[1])
\* A lookup in the holdings loop raises, after all_positions.append(dp).
TimeindexLoopRaises == \E s \in Symbols : ~HasKey(s)

\* Portfolio.update_timeindex: what it leaves behind, and whether it raised.
update_timeindex ==
    IF TimeindexFirstRaises
    THEN [raised |-> TRUE, all_positions |-> all_positions,
          all_holdings |-> all_holdings, current_holdings |-> current_holdings]
    ELSE LET bars == get_latest_bars(symbol_list[1], 1)
         IN  IF bars = <<>>
             THEN [raised |-> FALSE, all_positions |-> all_positions,
                   all_holdings |-> all_holdings, current_holdings |-> current_holdings]
             ELSE LET ts == bars[1].datetime
                  IN  IF TimeindexLoopRaises
                      THEN [raised |-> TRUE,
                            all_positions |-> LedgerAppend(all_positions, PositionRow(ts)),
                            all_holdings |-> all_holdings,
                            current_holdings |-> current_holdings]
                      ELSE [raised |-> FALSE,
                            all_positions |-> LedgerAppend(all_positions, PositionRow(ts)),
                            all_holdings |-> LedgerAppend(all_holdings, HoldingsRow(ts)),
                            current_holdings |->
                                [current_holdings EXCEPT !.total = TotalValue]]

\* A sizing that scales the order with the signal's strength.
update_signal_sized(e) ==
    OrderEvent(e.symbol, "MKT", OrderQuantity * e.strength, e.direction, e.bar)
\* NaivePortfolio.update_signal: one market order of 100 in the signal's direction.
update_signal(e) == OrderEvent(e.symbol, "MKT", OrderQuantity, e.direction, e.bar)

\* A sign that takes every fill for a buy.
FillDir_always_buy(d) == 1
\* NaivePortfolio.update_fill: the sign of a fill.
FillDir(d) == IF d = "BUY" THEN 1 ELSE IF d = "SELL" THEN -1 ELSE 1

\* A profit rule without the branch for a buy that closes a short position.
TradeProfit_long_only(e) ==
    IF e.symbol \in DOMAIN last_fill_price /\ FillDir(e.direction) = -1
    THEN FMul(FSub(e.fill_cost, last_fill_price[e.symbol]), e.quantity)
    ELSE 0
\* update_fill, the profit of the trade: from the last fill price of the symbol.
TradeProfit(e) ==
    IF e.symbol \in DOMAIN last_fill_price
    THEN IF FillDir(e.direction) = -1
         THEN FMul(FSub(e.fill_cost, last_fill_price[e.symbol]), e.quantity)
         ELSE IF current_positions[e.symbol] < 0
              THEN FMul(FSub(last_fill_price[e.symbol], e.fill_cost), e.quantity)
              ELSE 0
    ELSE 0

Trade(e) ==
    [symbol |-> e.symbol, direction |-> e.direction, quantity |-> e.quantity,
     price |-> e.fill_cost, commission |-> e.commission, profit |-> TradeProfit(e),
     datetime |-> e.datetime, bar |-> e.bar]

\* A fill that moves the position of every symbol.
FillPositions_all(e) ==
    [s \in Symbols |-> current_positions[s] + FillDir(e.direction) * e.quantity]
\* update_fill: current_positions[event.symbol] += fill_dir * event.quantity
FillPositions(e) ==
    [current_positions EXCEPT ![e.symbol] = @ + FillDir(e.direction) * e.quantity]

\* A fill that books the commission but does not take it from the cash.
FillHoldings_cash_keeps_commission(e) ==
    [current_holdings EXCEPT
        !.cash = FSub(@, FMul(FillDir(e.direction), FMul(e.fill_cost, e.quantity))),
        !.commission = @ + e.commission]
\* update_fill: the cash and the cumulative commission.
FillHoldings(e) ==
    [current_holdings EXCEPT
        !.cash = FSub(FSub(@, FMul(FillDir(e.direction), FMul(e.fill_cost, e.quantity))),
                      e.commission),
        !.commission = @ + e.commission]

LastFillPrice(e) ==
    [s \in DOMAIN last_fill_price \cup {e.symbol} |->
        IF s = e.symbol THEN e.fill_cost ELSE last_fill_price[s]]

\* update_fill where current_holdings is the very dict seeded as row 0 of
\* all_holdings (no copy made at construction).
update_fill_aliased(e) ==
    /\ all_trades' = Append(all_trades, Trade(e))
    /\ last_fill_price' = LastFillPrice(e)
    /\ current_positions' = FillPositions(e)
    /\ current_holdings' = FillHoldings(e)
    /\ all_holdings' = [all_holdings EXCEPT
                           ![1].cash = FillHoldings(e).cash,
                           ![1].commission = FillHoldings(e).commission]
    /\ UNCHANGED all_positions

\* An update_fill that records no trade.
update_fill_no_trade(e) ==
    /\ last_fill_price' = LastFillPrice(e)
    /\ current_positions' = FillPositions(e)
    /\ current_holdings' = FillHoldings(e)
    /\ UNCHANGED <<all_positions, all_holdings, all_trades>>

\* NaivePortfolio.update_fill: the trade record, the last-fill-price memo, the
\* position and the cash; the ledgers are not touched.
update_fill(e) ==
    /\ all_trades' = Append(all_trades, Trade(e))
    /\ last_fill_price' = LastFillPrice(e)
    /\ current_positions' = FillPositions(e)
    /\ current_holdings' = FillHoldings(e)
    /\ UNCHANGED <<all_positions, all_holdings>>

\* --------------------------------------------- SimulatedExecutionHandler
\* An execute_order that leaves the price at zero when it finds no bar.
FillCost_no_default(s) ==
    IF bars_attached /\ HasKey(s) /\ get_latest_bars(s, 1) # <<>>
    THEN get_latest_bars(s, 1)[1].close
    ELSE 0
\* execute_order: the close of the symbol's latest bar; the default when no
\* handler is attached, the lookup raises or returns no bar.
FillCost(s) ==
    IF bars_attached /\ HasKey(s) /\ get_latest_bars(s, 1) # <<>>
    THEN get_latest_bars(s, 1)[1].close
    ELSE FallbackPrice

\* An execution handler that fills an EXIT as a SELL.
execute_order_exit_sells(e) ==
    FillEvent(utcnow(0), e.symbol, e.quantity,
              IF e.direction = "EXIT" THEN "SELL" ELSE e.direction,
              FillCost(e.symbol), e.bar)
execute_order(e) ==
    FillEvent(utcnow(0), e.symbol, e.quantity, e.direction, FillCost(e.symbol), e.bar)

\* ---------------------------------------------------- PerformanceAnalyzer
\* A metric's outcome is kept as a kind: "raise" (the call raises), "nan",
\* "inf", "neginf", "zero" (exactly 0.0) or "num" (any other finite number).
Kinds == {"raise", "nan", "inf", "neginf", "zero", "num"}

NoStats == [raised |-> "none"]

NoRun == [stats |-> NoStats]

\* The equity curve is built from the `total` column of all_holdings.
Total(i) == all_holdings[i].total

Rows == Len(all_holdings)

\* returns = total.pct_change(): row 1 is NaN, row i compares with row i - 1.
ReturnRows == 2..Rows

ReturnIsNaN(i) == Total(i) = NaN \/ Total(i - 1) = NaN

ValidReturns == {i \in ReturnRows : ~ReturnIsNaN(i)}

\* Numerator of return i; its denominator Total(i - 1) is positive.
Gain(i) == Total(i) - Total(i - 1)

SameReturn(i, j) == Gain(i) * Total(j - 1) = Gain(j) * Total(i - 1)

\* equity_curve = (1 + returns).cumprod(): row 1 is NaN, row i is
\* Total(i) / Total(1) from then on.
EquityRows == ValidReturns

\* (equity_curve.iloc[-1] - 1.0) * 100
TotalReturn ==
    IF Rows \notin EquityRows THEN "nan"
    ELSE IF Total(Rows) = Total(1) THEN "zero" ELSE "num"

\* returns.std() with ddof = 1 is NaN below two returns, 0 when all agree.
ZeroDeviation(rows) ==
    /\ Cardinality(rows) >= 2
    /\ \A i, j \in rows : SameReturn(i, j)

\* Sign of returns.mean() when every return has the same sign, else 2.
MeanSign(rows) ==
    IF \A i \in rows : Gain(i) = 0 THEN 0
    ELSE IF \A i \in rows : Gain(i) >= 0 THEN 1
    ELSE IF \A i \in rows : Gain(i) <= 0 THEN -1
    ELSE 2

\* np.sqrt(252) * (excess_returns.mean() / excess_returns.std()) on numpy
\* floats: a zero deviation gives nan or a signed infinity, never an error.
calculate_sharpe_ratio ==
    IF Cardinality(ValidReturns) < 2 THEN "nan"
    ELSE IF ZeroDeviation(ValidReturns)
         THEN CASE MeanSign(ValidReturns) = 0 -> "nan"
                [] MeanSign(ValidReturns) = 1 -> "inf"
                [] OTHER -> "neginf"
    ELSE "num"

\* cumulative_max = equity_curve.cummax() skips the NaN of row 1.
InDrawdown(i) == \E j \in EquityRows : j < i /\ Total(j) > Total(i)

\* drawdowns.min(), then drawdowns.idxmin(): on the all-NaN series of a
\* one-row ledger idxmin returns NaN or raises ValueError, by pandas version.
MaxDrawdownOutcomes ==
    IF EquityRows = {} THEN {"nan", "raise"}
    ELSE IF \E i \in EquityRows : InDrawdown(i) THEN {"num"} ELSE {"zero"}

\* days = (end_date - start_date).days over the ledger's index.
ElapsedDays == all_holdings[Rows].datetime - all_holdings[1].datetime

\* (equity_curve.iloc[-1]) ** (365.0 / days) - 1: the division is between
\* Python numbers and raises ZeroDivisionError when days is 0.
calculate_cagr ==
    IF ElapsedDays = 0 THEN "raise"
    ELSE IF Rows \notin EquityRows THEN "nan"
    ELSE IF Total(Rows) = Total(1) THEN "zero" ELSE "num"

\* numerator / abs(max_dd) if max_dd != 0 else float('inf')
OverDrawdown(numerator, max_dd) ==
    CASE numerator = "raise" \/ max_dd = "raise" -> "raise"
      [] max_dd = "zero" -> "inf"
      [] max_dd = "nan" \/ numerator = "nan" -> "nan"
      [] numerator = "zero" -> "zero"
      [] OTHER -> "num"

calculate_car_mdd(max_dd) == OverDrawdown(calculate_cagr, max_dd)

calculate_calmar_ratio(max_dd) == OverDrawdown(calculate_cagr, max_dd)

calculate_recovery_factor(max_dd) == OverDrawdown(TotalReturn, max_dd)

NegativeReturns == {i \in ValidReturns : Gain(i) < 0}

\* negative_returns.std() * sqrt(252), NaN below two negative returns;
\* annualized_return / downside_deviation if downside_deviation > 0 else inf
calculate_sortino_ratio ==
    IF Cardinality(NegativeReturns) < 2 \/ ZeroDeviation(NegativeReturns)
    THEN "inf"
    ELSE "num"

\* total_gains / total_losses if total_losses > 0 else float('inf')
calculate_gain_to_pain_ratio ==
    IF NegativeReturns = {} THEN "inf"
    ELSE IF \E i \in ValidReturns : Gain(i) > 0 THEN "num" ELSE "zero"

\* if not hasattr(self.portfolio, 'all_trades') or not self.portfolio.all_trades
NoTrades == all_trades = <<>>

Winning == {i \in 1..Len(all_trades) : all_trades[i].profit > 0}

Losing == {i \in 1..Len(all_trades) : all_trades[i].profit < 0}

RECURSIVE TotalProfit(_)
TotalProfit(n) ==
    IF n = 0 THEN 0 ELSE TotalProfit(n - 1) + all_trades[n].profit

calculate_win_ratio ==
    IF NoTrades \/ Winning = {} THEN "zero" ELSE "num"

calculate_profit_factor ==
    IF NoTrades THEN "zero"
    ELSE IF Losing = {} THEN "inf"
    ELSE IF Winning = {} THEN "zero" ELSE "num"

calculate_expectancy_unguarded ==
    IF NoTrades THEN "raise"
    ELSE IF TotalProfit(Len(all_trades)) = 0 THEN "zero" ELSE "num"

calculate_expectancy ==
    IF NoTrades \/ TotalProfit(Len(all_trades)) = 0 THEN "zero" ELSE "num"

calculate_average_trade_net_profit ==
    IF NoTrades \/ TotalProfit(Len(all_trades)) = 0 THEN "zero" ELSE "num"

calculate_average_winning_trade ==
    IF NoTrades \/ Winning = {} THEN "zero" ELSE "num"

calculate_average_losing_trade ==
    IF NoTrades \/ Losing = {} THEN "zero" ELSE "num"

\* avg_winning / avg_losing if avg_losing > 0 else float('inf')
calculate_payoff_ratio ==
    IF NoTrades THEN "zero"
    ELSE IF Losing = {} THEN "inf"
    ELSE IF Winning = {} THEN "zero" ELSE "num"

\* get_summary_stats calls the curve metrics one after the other and raises
\* with the first that does; each field is what that method gives by itself.
get_summary_stats(max_dd) ==
    [raised |-> IF max_dd = "raise" \/ calculate_cagr = "raise"
                THEN "yes" ELSE "no",
     TotalReturn |-> TotalReturn,
     SharpeRatio |-> calculate_sharpe_ratio,
     MaxDrawdown |-> max_dd,
     CAGR |-> calculate_cagr,
     WinRatio |-> calculate_win_ratio,
     ProfitFactor |-> calculate_profit_factor,
     CarMdd |-> calculate_car_mdd(max_dd),
     Expectancy |-> calculate_expectancy,
     SortinoRatio |-> calculate_sortino_ratio,
     CalmarRatio |-> calculate_calmar_ratio(max_dd),
     RecoveryFactor |-> calculate_recovery_factor(max_dd),
     GainToPain |-> calculate_gain_to_pain_ratio,
     AvgTradeNetProfit |-> calculate_average_trade_net_profit,
     AvgWinningTrade |-> calculate_average_winning_trade,
     AvgLosingTrade |-> calculate_average_losing_trade,
     PayoffRatio |-> calculate_payoff_ratio]

\* -------------------------------------------------------------- Backtester
\* The state the constructors build for the run's inputs.
Fresh ==
    /\ symbol_data = IF feed = "csv" THEN CsvSymbolData(raw) ELSE YahooSymbolData(raw)
    /\ latest_symbol_data = [s \in Symbols |-> <<>>]
    /\ continue_backtest = TRUE
    /\ bar_iter = [s \in Symbols |-> 0]
    /\ current_index = 0
    /\ events = <<>>
    /\ all_positions = <<SeedPositions>>
    /\ all_holdings = <<SeedHoldings>>
    /\ current_positions = [s \in Symbols |-> 0]
    /\ current_holdings = SeedCurrentHoldings
    /\ all_trades = <<>>
    /\ last_fill_price = <<>>
    /\ signals = 0
    /\ orders = 0
    /\ fills = 0
    /\ bought = [s \in Symbols |-> FALSE]
    /\ pc = "Running"
    /\ tick = 0
    /\ emitted = 0
    /\ enq_log = <<>>
    /\ deq_log = <<>>
    /\ call = NoCall
    /\ stats = NoStats

\* A first run: nothing was run before.
Built ==
    /\ Fresh
    /\ started = FirstStart
    /\ previous = NoRun

\* The components after construction, but for the handler given to the
\* execution handler.
Constructed ==
    /\ feed \in Feeds
    /\ strategy \in Strategies
    /\ fill_commission \in Commissions
    /\ \E oa \in SUBSET (1..MaxT), ob \in SUBSET (1..MaxT) :
          raw = [s \in AllSymbols |-> IF s = "A" THEN Series(s, oa) ELSE Series(s, ob)]
    /\ Built

\* _generate_trading_instances gives the execution handler the data handler.
Init ==
    /\ Constructed
    /\ bars_attached = TRUE

\* The outer loop with continue_backtest set: data_handler.update_bars(), then
\* the inner loop.
UpdateBars ==
    /\ pc = "Running"
    /\ continue_backtest = TRUE
    /\ update_bars
    /\ pc' = "Draining"
    /\ UNCHANGED <<strategy, fill_commission, portVars, signals, orders, fills,
                   bought, emitted, deq_log>>

\* A break that first writes a closing row with the positions as they stand.
Finish_closing_row ==
    /\ pc = "Running"
    /\ continue_backtest # TRUE
    /\ pc' = "Finished"
    /\ all_positions' =
          LedgerAppend(all_positions,
                       PositionRow(all_positions[Len(all_positions)].datetime))
    /\ UNCHANGED <<feedVars, strategy, fill_commission, events, all_holdings,
                   current_positions, current_holdings, all_trades, last_fill_price,
                   signals, orders, fills, bought, tick, emitted, enq_log, deq_log>>
\* The outer loop with continue_backtest cleared: break.
Finish ==
    /\ pc = "Running"
    /\ continue_backtest # TRUE
    /\ pc' = "Finished"
    /\ UNCHANGED <<feedVars, strategy, fill_commission, events, portVars, signals,
                   orders, fills, bought, tick, emitted, enq_log, deq_log>>

\* An inner loop that hands back after any event (an if for the while).
DrainDone_early ==
    /\ pc = "Draining"
    /\ pc' = "Running"
    /\ UNCHANGED <<feedVars, strategy, fill_commission, events, portVars, signals,
                   orders, fills, bought, tick, emitted, enq_log, deq_log>>

\* The inner loop: events.get(False) raises queue.Empty, break.
DrainDone ==
    /\ pc = "Draining"
    /\ QEmpty(events)
    /\ pc' = "Running"
    /\ UNCHANGED <<feedVars, strategy, fill_commission, events, portVars, signals,
                   orders, fills, bought, tick, emitted, enq_log, deq_log>>

\* The inner loop took an event of the given type off the queue.
Dequeued(type) ==
    /\ pc = "Draining"
    /\ ~QEmpty(events)
    /\ QFront(events).type = type
    /\ deq_log' = Append(deq_log, QFront(events))

\* A MARKET event: strategy.calculate_signals(event), then
\* portfolio.update_timeindex(event); raised tells whether either raised.
MarketStep(raised) ==
    /\ \E out \in StrategyOutcomes :
          LET b == QFront(events).bar
              sigs == SignalEvents(out.sigs, b)
              res == IF out.raised
                     THEN [raised |-> TRUE, all_positions |-> all_positions,
                           all_holdings |-> all_holdings,
                           current_holdings |-> current_holdings]
                     ELSE update_timeindex
          IN  /\ res.raised = raised
              /\ events' = QRest(events) \o sigs
              /\ enq_log' = enq_log \o sigs
              /\ emitted' = emitted + Len(sigs)
              /\ bought' = out.bought
              /\ all_positions' = res.all_positions
              /\ all_holdings' = res.all_holdings
              /\ current_holdings' = res.current_holdings
    /\ pc' = IF raised THEN "Crashed" ELSE pc
    /\ UNCHANGED <<feedVars, strategy, fill_commission, current_positions, all_trades,
                   last_fill_price, signals, orders, fills, tick>>

HandleMarket ==
    /\ Dequeued("MARKET")
    /\ MarketStep(FALSE)

\* The exception leaves _run_backtest: the run is over.
HandleMarketRaises ==
    /\ Dequeued("MARKET")
    /\ MarketStep(TRUE)

\* A SIGNAL event: portfolio.update_signal(event).
HandleSignal ==
    /\ Dequeued("SIGNAL")
    /\ signals' = signals + 1
    /\ events' = QPut(QRest(events), update_signal(QFront(events)))
    /\ enq_log' = Append(enq_log, update_signal(QFront(events)))
    /\ UNCHANGED <<feedVars, strategy, fill_commission, portVars, orders, fills,
                   bought, pc, tick, emitted>>

\* An execution handler that takes the Order and puts no Fill.
HandleOrder_no_fill ==
    /\ Dequeued("ORDER")
    /\ orders' = orders + 1
    /\ events' = QRest(events)
    /\ UNCHANGED <<feedVars, strategy, fill_commission, portVars, signals, fills,
                   bought, pc, tick, emitted, enq_log>>
\* An ORDER event: execution_handler.execute_order(event).
HandleOrder ==
    /\ Dequeued("ORDER")
    /\ orders' = orders + 1
    /\ events' = QPut(QRest(events), execute_order(QFront(events)))
    /\ enq_log' = Append(enq_log, execute_order(QFront(events)))
    /\ UNCHANGED <<feedVars, strategy, fill_commission, portVars, signals, fills,
                   bought, pc, tick, emitted>>

\* A FILL event: portfolio.update_fill(event).
HandleFill ==
    /\ Dequeued("FILL")
    /\ fills' = fills + 1
    /\ events' = QRest(events)
    /\ update_fill(QFront(events))
    /\ UNCHANGED <<feedVars, strategy, fill_commission, signals, orders, bought, pc,
                   tick, emitted, enq_log>>

Next ==
    \/ UpdateBars
    \/ DrainDone
    \/ HandleMarket
    \/ HandleMarketRaises
    \/ HandleSignal
    \/ HandleOrder
    \/ HandleFill
    \/ Finish

Spec == Init /\ [][Next]_vars

\* ------------------------------------------------ single-symbol scenarios
\* Runs of the engine over one symbol with a concrete strategy of
\* strategies.py and a daily series of up to MaxBars bars whose adjusted close
\* rises, falls, stays flat, or rises until the long window is full and then
\* collapses; the close lies Gap above it.
ScenarioStrategies == {"bah", "mac"}
Shapes == {"rise", "fall", "flat", "peak"}
Gaps == {0, 10}
BasePrice == 100
PeakBar == LongWindow
FloorPrice == 5

ShapePrice(shape, t) ==
    IF shape = "rise" THEN BasePrice + t
    ELSE IF shape = "fall" THEN BasePrice - t
    ELSE IF shape = "flat" THEN BasePrice
    ELSE IF t <= PeakBar THEN BasePrice + t ELSE FloorPrice

ScenarioSeries(shape, gap, len) ==
    [t \in 1..len |->
        [datetime |-> t, close |-> ShapePrice(shape, t) + gap,
         adj_close |-> ShapePrice(shape, t)]]

ScenarioInit ==
    /\ feed \in Feeds
    /\ strategy \in ScenarioStrategies
    /\ fill_commission \in Commissions
    /\ \E shape \in Shapes, gap \in Gaps, len \in 0..MaxBars :
          raw = [s \in {"A"} |-> ScenarioSeries(shape, gap, len)]
    /\ Built
    /\ bars_attached = TRUE

\* The installed pandas is the one of the earlier run: where that run met the
\* same version-dependent call, this one gets the same outcome.
SameBuild(max_dd) ==
    IF previous = NoRun THEN TRUE
    ELSE IF previous.stats.MaxDrawdown \notin MaxDrawdownOutcomes THEN TRUE
    ELSE max_dd = previous.stats.MaxDrawdown

\* _output_performance: PerformanceAnalyzer(self.portfolio), then
\* get_summary_stats(); an exception leaves run() through its caller.
OutputPerformance ==
    /\ pc = "Finished"
    /\ stats = NoStats
    /\ \E max_dd \in MaxDrawdownOutcomes :
          /\ SameBuild(max_dd)
          /\ stats' = get_summary_stats(max_dd)
          /\ pc' = IF stats'.raised = "yes" THEN "Crashed" ELSE "Finished"
    /\ UNCHANGED <<feed, raw, symbol_data, latest_symbol_data, continue_backtest,
                   bar_iter, current_index, call, bars_attached, started,
                   previous, strategy, fill_commission, events, portVars,
                   signals, orders, fills, bought, tick, emitted, enq_log,
                   deq_log>>

\* run(): _run_backtest where no lookup can raise, then _output_performance.
ScenarioNext ==
    \/ UpdateBars
    \/ DrainDone
    \/ HandleMarket
    \/ HandleSignal
    \/ HandleOrder
    \/ HandleFill
    \/ Finish
    \/ OutputPerformance

ScenarioSpec == ScenarioInit /\ [][ScenarioNext]_vars

\* ------------------------------------------- single symbol, any strategy
\* Runs of the engine over one symbol with a strategy that may emit Signals of
\* any direction, several for the same symbol.
SignalInit ==
    /\ feed \in Feeds
    /\ strategy = "any"
    /\ fill_commission \in Commissions
    /\ \E oa \in SUBSET (1..MaxT) : raw = [s \in {"A"} |-> Series(s, oa)]
    /\ Built
    /\ bars_attached = TRUE

SignalSpec == SignalInit /\ [][ScenarioNext]_vars

\* ------------------------------------------------------- running it again
\* After run() has returned or raised, a second Backtester is built on the same
\* feed, strategy, initial capital and start date and run, later on the wall
\* clock; what the first run left behind is kept for comparison.
RerunDelays == {1, 100}

Rerun ==
    /\ previous = NoRun
    /\ stats # NoStats
    /\ previous' = [stats |-> stats, all_positions |-> all_positions,
                    all_holdings |-> all_holdings, all_trades |-> all_trades]
    /\ \E d \in RerunDelays : started' = utcnow(d)
    /\ UNCHANGED <<feed, strategy, fill_commission, raw, bars_attached>>
    /\ symbol_data' = IF feed = "csv" THEN CsvSymbolData(raw) ELSE YahooSymbolData(raw)
    /\ latest_symbol_data' = [s \in Symbols |-> <<>>]
    /\ continue_backtest' = TRUE
    /\ bar_iter' = [s \in Symbols |-> 0]
    /\ current_index' = 0
    /\ events' = <<>>
    /\ all_positions' = <<SeedPositions>>
    /\ all_holdings' = <<SeedHoldings>>
    /\ current_positions' = [s \in Symbols |-> 0]
    /\ current_holdings' = SeedCurrentHoldings
    /\ all_trades' = <<>>
    /\ last_fill_price' = <<>>
    /\ signals' = 0
    /\ orders' = 0
    /\ fills' = 0
    /\ bought' = [s \in Symbols |-> FALSE]
    /\ pc' = "Running"
    /\ tick' = 0
    /\ emitted' = 0
    /\ enq_log' = <<>>
    /\ deq_log' = <<>>
    /\ call' = NoCall
    /\ stats' = NoStats

RerunNext ==
    \/ ScenarioNext
    \/ Rerun

RerunSpec == ScenarioInit /\ [][RerunNext]_vars

\* ------------------------------------------------- the feed used directly
\* A client of the DataHandler alone (a Strategy, Portfolio or ExecutionHandler
\* holds it as self.bars): it calls update_bars while continue_backtest is set,
\* and get_latest_bars with any symbol, tracked or not, and any count.
UntrackedSymbol == "Z"
CallSymbols == Symbols \cup {UntrackedSymbol}
CallCounts == 0..(MaxT + 1)

FeedUpdateBars ==
    /\ continue_backtest = TRUE
    /\ update_bars
    /\ UNCHANGED <<strategy, fill_commission, portVars, signals, orders, fills,
                   bought, pc, emitted, deq_log>>

GetLatestBars ==
    /\ \E s \in CallSymbols, N \in CallCounts : call' = LatestBarsCall(s, N)
    /\ UNCHANGED <<feed, raw, symbol_data, latest_symbol_data, continue_backtest,
                   bar_iter, current_index, strategy, fill_commission, events,
                   portVars, signals, orders, fills, bought, pc, tick, emitted,
                   enq_log, deq_log, bars_attached, stats, started, previous>>

FeedNext ==
    \/ FeedUpdateBars
    \/ GetLatestBars

FeedSpec == Init /\ [][FeedNext]_vars

\* -------------------------------------------- the portfolio used directly
\* A client of NaivePortfolio alone (as the tests of src/test.py drive the
\* components): it hands update_signal any Signal, of any strength, and
\* update_fill any Fill, with the directions of test.py (BUY, SELL) or those
\* the engine passes through (LONG, SHORT, EXIT).
Strengths == {SignalStrength, 2 * SignalStrength}
FillDirections == {"BUY", "SELL"} \cup Directions
FillQuantities == {OrderQuantity, 2 * OrderQuantity}
FillPrices == {ClosePrice("A", 1), FallbackPrice}

PortInit ==
    /\ Init
    /\ feed = "csv"
    /\ strategy = "any"
    /\ \A s \in Symbols : Len(raw[s]) = MaxT

CallsMade == Len(deq_log)

PortUpdateSignal ==
    /\ CallsMade < MaxCalls
    /\ \E s \in Symbols, d \in Directions, x \in Strengths :
          LET e == SignalEvent(s, utcnow(0), d, x, tick)
          IN  /\ deq_log' = Append(deq_log, e)
              /\ events' = QPut(events, update_signal(e))
              /\ enq_log' = Append(enq_log, update_signal(e))
    /\ UNCHANGED <<feedVars, strategy, fill_commission, portVars, signals, orders,
                   fills, bought, pc, tick, emitted>>

PortUpdateFill ==
    /\ CallsMade < MaxCalls
    /\ \E s \in Symbols, d \in FillDirections, q \in FillQuantities, c \in FillPrices :
          LET e == FillEvent(utcnow(0), s, q, d, c, tick)
          IN  /\ deq_log' = Append(deq_log, e)
              /\ update_fill(e)
    /\ UNCHANGED <<feedVars, strategy, fill_commission, events, signals, orders,
                   fills, bought, pc, tick, emitted, enq_log>>

PortNext ==
    \/ PortUpdateSignal
    \/ PortUpdateFill

PortSpec == PortInit /\ [][PortNext]_vars

\* ------------------------------------ the execution handler used directly
\* A client of SimulatedExecutionHandler alone: the handler was built with or
\* without a DataHandler, the feed is advanced, and execute_order is handed
\* Orders for any symbol, tracked or not.
MaxOrders == MaxSignals

ExecInit ==
    /\ Constructed
    /\ bars_attached \in BOOLEAN
    /\ strategy = "any"
    /\ fill_commission = 0

ExecExecuteOrder ==
    /\ Len(deq_log) < MaxOrders
    /\ \E s \in CallSymbols, d \in Directions, q \in FillQuantities :
          LET e == OrderEvent(s, "MKT", q, d, tick)
          IN  /\ deq_log' = Append(deq_log, e)
              /\ events' = QPut(events, execute_order(e))
              /\ enq_log' = Append(enq_log, execute_order(e))
    /\ UNCHANGED <<feedVars, strategy, fill_commission, portVars, signals, orders,
                   fills, bought, pc, tick, emitted>>

ExecNext ==
    \/ FeedUpdateBars
    \/ ExecExecuteOrder

ExecSpec == ExecInit /\ [][ExecNext]_vars

\* ------------------------------------------------------ history operators
RECURSIVE SumSeq(_)
SumSeq(q) == IF q = <<>> THEN 0 ELSE FAdd(Head(q), SumSeq(Tail(q)))

\* The trades of the fills processed before bar b's Market event.
Before(b, amount(_)) ==
    SumSeq([i \in 1..Len(all_trades) |->
              IF all_trades[i].bar < b THEN amount(all_trades[i]) ELSE 0])

SignedQuantity(t) == FillDir(t.direction) * t.quantity
TradeCost(t) == FAdd(FMul(SignedQuantity(t), t.price), t.commission)
TradeCommission(t) == t.commission

CashBefore(b) == FSub(InitialCapital, Before(b, TradeCost))
CommissionBefore(b) == Before(b, TradeCommission)
PositionBefore(s, b) ==
    LET qty(t) == IF t.symbol = s THEN SignedQuantity(t) ELSE 0 IN Before(b, qty)

\* The adjusted close of symbol s at tick b: that of the latest bar the feed
\* had observed for s once b ticks had been replayed.
AdjCloseAt(s, b) ==
    latest_symbol_data[s][Min(b, Len(latest_symbol_data[s]))].adj_close

CountType(q, type) == Cardinality({i \in 1..Len(q) : q[i].type = type})

\* ---------------------------------------------------------------- claims

\* C1: for every ledger row t > 0 the holdings total is cash minus cumulative
\* commission plus the sum over the symbols of (position before bar t's fills)
\* times (bar t's adjusted close), cash and commission being the values before
\* bar t's fills. (NaN counts as equal to NaN.)
C1_TotalIsLaggedValuation ==
    \A r \in 2..Len(all_holdings) :
        LET b == r - 1
            values == [i \in 1..Len(symbol_list) |->
                         FMul(PositionBefore(symbol_list[i], b),
                              AdjCloseAt(symbol_list[i], b))]
        IN  /\ all_holdings[r].cash = CashBefore(b)
            /\ all_holdings[r].commission = CommissionBefore(b)
            /\ all_holdings[r].total =
                 FAdd(FSub(CashBefore(b), CommissionBefore(b)), SumSeq(values))

\* C1 witness: a row written after fills with a commission, valuing a held
\* position at a real price.
C1_Witness ==
    \E r \in 2..Len(all_holdings) :
        /\ CommissionBefore(r - 1) > 0
        /\ PositionBefore("A", r - 1) # 0
        /\ PositionBefore("B", r - 1) # 0
        /\ all_holdings[r].total # NaN
        /\ all_holdings[r].total # all_holdings[r].cash

\* C2: position row t holds the positions as they were before bar t's fills,
\* row t+1 is row t plus the signed quantities of the fills of bar t, and the
\* row of a bar is written before any Signal, Order or Fill of that bar is
\* taken off the queue.
C2_LedgerLagsFillsByOneBar ==
    /\ \A r \in 2..Len(all_positions) : \A s \in Symbols :
          all_positions[r].pos[s] = PositionBefore(s, r - 1)
    /\ \A r \in 1..(Len(all_positions) - 1) : \A s \in Symbols :
          all_positions[r + 1].pos[s] =
              all_positions[r].pos[s] + (PositionBefore(s, r) - PositionBefore(s, r - 1))
    /\ \A i \in 1..Len(deq_log) :
          deq_log[i].type # "MARKET" => Len(all_positions) >= deq_log[i].bar + 1

\* C2 witness: a fill of bar 1 shows in row 2 of the ledger (bar 2's row) and
\* not in bar 1's row.
C2_Witness ==
    /\ Len(all_positions) >= 3
    /\ all_positions[2].pos["A"] = 0
    /\ all_positions[3].pos["A"] = OrderQuantity
    /\ \E i \in 1..Len(all_trades) : all_trades[i].bar = 1 /\ all_trades[i].symbol = "A"

\* C3: after any sequence of engine steps the two ledgers have the same number
\* of rows, row i of one carries the timestamp of row i of the other, and row 0
\* of both is stamped start_date.
C3_LedgersAligned ==
    /\ Len(all_positions) = Len(all_holdings)
    /\ \A i \in 1..Min(Len(all_positions), Len(all_holdings)) :
          all_positions[i].datetime = all_holdings[i].datetime
    /\ all_positions[1].datetime = StartDate
    /\ all_holdings[1].datetime = StartDate

\* C4: row 0 of the holdings ledger has cash = total = initial_capital,
\* commission 0 and value 0 for every symbol, row 0 of the position ledger has
\* quantity 0 for every symbol, whatever events have been processed.
C4_SeedRowKept ==
    /\ all_holdings[1].cash = InitialCapital
    /\ all_holdings[1].total = InitialCapital
    /\ all_holdings[1].commission = 0
    /\ \A s \in Symbols : all_holdings[1].value[s] = 0
    /\ \A s \in Symbols : all_positions[1].pos[s] = 0

\* C4 witness: the run is over, rows were added and fills changed the cash.
C4_Witness ==
    /\ pc = "Finished"
    /\ Len(all_holdings) >= 3
    /\ fills >= 2
    /\ current_holdings.cash # InitialCapital

\* C5: every Market event processed appends exactly one row to each ledger:
\* after k Market events each ledger has k+1 rows (one row for no bars).
C5_OneRowPerMarketEvent ==
    /\ Len(all_positions) = CountType(deq_log, "MARKET") + 1
    /\ Len(all_holdings) = CountType(deq_log, "MARKET") + 1

\* C6: the ledgers are append-only: no step changes a row already written.
C6_AppendOnly ==
    [][/\ Len(all_positions') >= Len(all_positions)
       /\ Len(all_holdings') >= Len(all_holdings)
       /\ \A i \in 1..Len(all_positions) : all_positions'[i] = all_positions[i]
       /\ \A i \in 1..Len(all_holdings) : all_holdings'[i] = all_holdings[i]]_vars

\* C6 witness: fills were processed after two bars' rows were written, and the
\* current positions differ from every row.
C6_Witness ==
    /\ Len(all_holdings) >= 3
    /\ fills >= 1
    /\ \A i \in 1..Len(all_positions) : all_positions[i].pos # current_positions

\* C7: the queue is empty whenever the engine asks the feed to advance; it
\* never holds more than one Market event, and a Market event is at its head.
C7_QueueDrainedBeforeAdvance ==
    /\ pc = "Running" => events = <<>>
    /\ CountType(events, "MARKET") <= 1
    /\ \A i \in 1..Len(events) : events[i].type = "MARKET" => i = 1

\* C7 witness: the engine is about to advance again after a bar whose drain
\* handled a signal, an order and a fill.
C7_Witness ==
    /\ pc = "Running"
    /\ continue_backtest
    /\ tick >= 1
    /\ fills >= 1

\* The place of an event's type in the pipeline Market, Signal, Order, Fill.
EventRank(e) ==
    IF e.type = "MARKET" THEN 0
    ELSE IF e.type = "SIGNAL" THEN 1
    ELSE IF e.type = "ORDER" THEN 2 ELSE 3

\* C8: events leave the queue in the order they entered it (the log of events
\* taken is a prefix of the log of events put, the queue is the rest), and
\* within one bar the Market event is handled first, every Signal before any
\* Order and every Order before any Fill.
C8_Fifo ==
    /\ Len(deq_log) <= Len(enq_log)
    /\ deq_log = SubSeq(enq_log, 1, Len(deq_log))
    /\ pc # "Crashed" /\ pc # "Finished" =>
          events = SubSeq(enq_log, Len(deq_log) + 1, Len(enq_log))
    /\ \A i \in 1..(Len(deq_log) - 1) :
          /\ deq_log[i].bar <= deq_log[i + 1].bar
          /\ deq_log[i].bar = deq_log[i + 1].bar =>
                EventRank(deq_log[i]) <= EventRank(deq_log[i + 1])

\* C8 witness: one bar yielded two different Signals; both were handled, then
\* both Orders, then both Fills.
C8_Witness ==
    \E i \in 1..Len(deq_log) :
        /\ i + 6 <= Len(deq_log)
        /\ deq_log[i].type = "MARKET"
        /\ deq_log[i + 1].type = "SIGNAL" /\ deq_log[i + 2].type = "SIGNAL"
        /\ deq_log[i + 1] # deq_log[i + 2]
        /\ deq_log[i + 3].type = "ORDER" /\ deq_log[i + 4].type = "ORDER"
        /\ deq_log[i + 3].symbol = deq_log[i + 1].symbol
        /\ deq_log[i + 3].direction = deq_log[i + 1].direction
        /\ deq_log[i + 5].type = "FILL" /\ deq_log[i + 6].type = "FILL"
        /\ deq_log[i + 5].symbol = deq_log[i + 1].symbol

\* C9: with a finite feed and finitely many signals per bar the engine reaches
\* Finished: a run that can take no further step is in Finished.
C9_ReachesFinished == pc = "Finished" \/ ENABLED Next

\* An observation of symbol s that the feed has not replayed yet: one after
\* the last tick (csv, by timestamp), one beyond the rows taken (yahoo).
LastTickTime ==
    LET done == latest_symbol_data[symbol_list[1]]
    IN  IF done = <<>> THEN StartDate ELSE done[Len(done)].datetime

HasUnreplayedBar(s) ==
    IF feed = "csv"
    THEN \E i \in 1..Len(raw[s]) : raw[s][i].datetime > LastTickTime
    ELSE Len(latest_symbol_data[s]) < Len(raw[s])

\* C10: update_bars reports exhaustion and puts no Market event exactly when
\* every symbol's series is exhausted; while some symbol has an unreplayed bar
\* it puts exactly one Market event.
C10_ExhaustionIffAllSeriesDone ==
    [][UpdateBars =>
          IF \E s \in Symbols : HasUnreplayedBar(s)
          THEN continue_backtest' /\ events' = Append(events, MarketEvent(tick + 1))
          ELSE ~continue_backtest' /\ events' = events]_vars

\* The union of the timestamps of all symbols' series, in order.
Calendar == SortedSeq(UNION {Timestamps(raw[s]) : s \in Symbols})

LatestBar(s) == latest_symbol_data[s][Len(latest_symbol_data[s])]

\* Symbol s has an observation at or before timestamp t.
Started(s, t) == \E i \in 1..Len(raw[s]) : raw[s][i].datetime <= t

\* C11: the replay calendar is the union of the symbols' timestamps: every
\* timestamp of the union gives one tick, and after the k-th advance the latest
\* bar of every symbol that has started is its last observation at or before
\* the k-th timestamp of the union, stamped with that timestamp.
C11_CalendarIsUnion ==
    /\ tick <= Len(Calendar)
    /\ (pc = "Finished" => tick = Len(Calendar))
    /\ (tick >= 1 /\ tick <= Len(Calendar)) =>
          \A s \in Symbols : Started(s, Calendar[tick]) =>
              /\ latest_symbol_data[s] # <<>>
              /\ LatestBar(s) = PadBar(raw[s], Calendar[tick])

\* C12: a tracked symbol without any observation does not abort the run: no
\* handler raises, every Market event handled has its full row in both ledgers,
\* the empty symbol is valued at zero in every row, and at the end of the run
\* every observation of the other symbols has been replayed.
C12_EmptySymbolHarmless ==
    \A e \in Symbols : raw[e] = <<>> =>
        /\ pc # "Crashed"
        /\ Len(all_positions) = CountType(deq_log, "MARKET") + 1
        /\ Len(all_holdings) = CountType(deq_log, "MARKET") + 1
        /\ \A r \in 2..Len(all_holdings) : all_holdings[r].value[e] = 0
        /\ pc = "Finished" =>
              \A s \in Symbols : \A i \in 1..Len(raw[s]) :
                  \E j \in 1..Len(latest_symbol_data[s]) :
                      latest_symbol_data[s][j].datetime = raw[s][i].datetime

\* C13: an error raised while a Market event is processed leaves no partial
\* ledger row: when update_timeindex has failed, the position row and the
\* holdings row of that bar were both appended or neither was.
C13_NoPartialRow ==
    pc = "Crashed" => Len(all_positions) = Len(all_holdings)

\* The last min(n, k) elements of a sequence of k elements, in order.
LastMin(seq, n) == SubSeq(seq, Len(seq) - Min(n, Len(seq)) + 1, Len(seq))

\* C14: for a tracked symbol with k bars observed so far and a count n >= 0,
\* get_latest_bars(symbol, n) returns the last min(n, k) observed bars in
\* chronological order, and changes neither the history nor the event queue.
C14_LatestBarsLastMin ==
    [][(GetLatestBars /\ HasKey(call'.symbol)) =>
          /\ ~call'.raised
          /\ call'.bars = LastMin(latest_symbol_data[call'.symbol], call'.N)
          /\ UNCHANGED <<latest_symbol_data, events>>]_vars

\* C15: get_latest_bars for a symbol that is not in the tracked set raises to
\* its caller, and leaves the history, continue_backtest and the event queue
\* as they were.
C15_UntrackedSymbolRaises ==
    [][(GetLatestBars /\ call'.symbol \notin Symbols) =>
          /\ call'.raised
          /\ UNCHANGED <<latest_symbol_data, continue_backtest, events>>]_vars

\* C15 witness: after an advance, with a Market event on the queue, a call for
\* the untracked symbol raised.
C15_Witness ==
    /\ call.symbol = UntrackedSymbol
    /\ call.raised
    /\ tick >= 1
    /\ events # <<>>
    /\ continue_backtest

\* The symbols the handler was able to load: csv, every file of symbol_list;
\* yahoo, every symbol of symbol_list whose history came back non-empty.
Loaded(s) == s \in Symbols /\ (feed = "yahoo" => raw[s] # <<>>)

\* C16 (as stated): get_latest_bars returns the empty sequence, without
\* raising, for a symbol unknown to the feed.
C16_UnknownSymbolEmpty ==
    [][(GetLatestBars /\ ~Loaded(call'.symbol)) =>
          (~call'.raised /\ call'.bars = <<>>)]_vars

\* C16 (amended): get_latest_bars raises exactly when the symbol is unknown to
\* the feed; it returns the empty sequence without raising for a known symbol
\* that has no observed bar yet.
C16_UnknownSymbolRaisesKnownEmpty ==
    [][GetLatestBars =>
          /\ call'.raised <=> ~Loaded(call'.symbol)
          /\ (Loaded(call'.symbol) /\ latest_symbol_data[call'.symbol] = <<>>) =>
                (~call'.raised /\ call'.bars = <<>>)]_vars

\* C16 witness: the yahoo handler skipped a tracked symbol at fetch, and a
\* call for it raised while another symbol had bars.
C16_Witness ==
    /\ feed = "yahoo"
    /\ call.symbol \in Symbols
    /\ raw[call.symbol] = <<>>
    /\ call.raised
    /\ \E s \in Symbols : latest_symbol_data[s] # <<>>

\* The trade update_fill has just recorded.
NewTrade == all_trades'[Len(all_trades')]

\* C17: for a Fill with direction BUY (sign +1) or SELL (sign -1), update_fill
\* changes current_positions[symbol] by sign x quantity, the cash by
\* -(sign x quantity x fill price) - commission and the cumulative commission
\* by the fill's commission, and leaves the other symbols' positions alone.
C17_FillEffect ==
    [][(Len(all_trades') = Len(all_trades) + 1 /\ NewTrade.direction \in {"BUY", "SELL"}) =>
          LET t == NewTrade
              sign == IF t.direction = "BUY" THEN 1 ELSE -1
          IN  /\ current_positions'[t.symbol] =
                    current_positions[t.symbol] + sign * t.quantity
              /\ \A s \in Symbols \ {t.symbol} :
                    current_positions'[s] = current_positions[s]
              /\ current_holdings'.cash =
                    current_holdings.cash - sign * t.quantity * t.price - t.commission
              /\ current_holdings'.commission =
                    current_holdings.commission + t.commission]_vars

\* C17 witness: a BUY and then a SELL of another quantity, each with a
\* commission, were applied to the same symbol.
C17_Witness ==
    /\ Len(all_trades) = 2
    /\ all_trades[1].direction = "BUY"
    /\ all_trades[2].direction = "SELL"
    /\ all_trades[1].symbol = all_trades[2].symbol
    /\ all_trades[1].quantity # all_trades[2].quantity
    /\ fill_commission > 0
    /\ current_positions[all_trades[1].symbol] < 0

\* C18: every Order that update_signal puts on the queue, for a Signal of
\* direction LONG, SHORT or EXIT, has a direction in {BUY, SELL} and a
\* quantity > 0.
C18_OrderDirectionBuyOrSell ==
    \A i \in 1..Len(enq_log) :
        enq_log[i].type = "ORDER" =>
            /\ enq_log[i].direction \in {"BUY", "SELL"}
            /\ enq_log[i].quantity > 0

\* C19: once the Order and the Fill derived from an EXIT Signal for symbol s
\* have been processed, current_positions[s] is lower than before.
C19_ExitLowersPosition ==
    [][(Len(all_trades') = Len(all_trades) + 1 /\ NewTrade.direction = "EXIT") =>
          current_positions'[NewTrade.symbol] < current_positions[NewTrade.symbol]]_vars

\* The event a handler has just been given.
Handled == deq_log'[Len(deq_log')]

\* C20: for every Signal, whatever its strength, update_signal puts exactly one
\* event on the queue, an Order for the signal's symbol with quantity 100 and
\* kind MKT, and changes neither current_positions, current_holdings nor
\* either ledger.
C20_OneFixedOrderPerSignal ==
    [][(Len(deq_log') = Len(deq_log) + 1 /\ Handled.type = "SIGNAL") =>
          /\ Len(enq_log') = Len(enq_log) + 1
          /\ SubSeq(enq_log', 1, Len(enq_log)) = enq_log
          /\ events'[Len(events')] = enq_log'[Len(enq_log')]
          /\ LET o == enq_log'[Len(enq_log')]
             IN  /\ o.type = "ORDER"
                 /\ o.symbol = Handled.symbol
                 /\ o.quantity = 100
                 /\ o.order_type = "MKT"
          /\ UNCHANGED <<current_positions, current_holdings, all_positions,
                         all_holdings>>]_vars

\* C20 witness: a Signal of a strength other than 1.0 was handed to
\* update_signal after a fill had given the portfolio a position, and its
\* Order is on the queue.
C20_Witness ==
    /\ Len(deq_log) = 2
    /\ deq_log[1].type = "FILL"
    /\ deq_log[2].type = "SIGNAL"
    /\ deq_log[2].strength # SignalStrength
    /\ deq_log[2].direction = "EXIT"
    /\ Len(events) = 1
    /\ events[1].quantity = OrderQuantity
    /\ current_positions[deq_log[2].symbol] # 0

\* The event a handler has just put on the queue.
Put == enq_log'[Len(enq_log')]

\* C21: the fill price of every Fill execute_order produces is the adjusted
\* close of the latest observed bar of the order's symbol when there is such a
\* bar, and the fallback constant otherwise.
C21_FillAtAdjustedClose ==
    [][(Len(enq_log') = Len(enq_log) + 1 /\ Put.type = "FILL") =>
          Put.fill_cost =
              IF HasKey(Put.symbol) /\ latest_symbol_data[Put.symbol] # <<>>
              THEN LatestBar(Put.symbol).adj_close
              ELSE FallbackPrice]_vars

\* C22: for every Order, execute_order puts exactly one event on the queue, a
\* Fill with the order's symbol, quantity and direction; it does not raise;
\* with no handler attached, a symbol unknown to the feed or a symbol without
\* an observed bar the fill has the fallback price; nothing but the queue
\* changes.
C22_ExecuteOrderTotal ==
    [][(Len(deq_log') = Len(deq_log) + 1 /\ Handled.type = "ORDER") =>
          /\ Len(enq_log') = Len(enq_log) + 1
          /\ SubSeq(enq_log', 1, Len(enq_log)) = enq_log
          /\ events'[Len(events')] = Put
          /\ Put.type = "FILL"
          /\ Put.symbol = Handled.symbol
          /\ Put.quantity = Handled.quantity
          /\ Put.direction = Handled.direction
          /\ (\/ ~bars_attached
              \/ ~Loaded(Handled.symbol)
              \/ latest_symbol_data[Handled.symbol] = <<>>) =>
                Put.fill_cost = FallbackPrice
          /\ pc' = pc
          /\ UNCHANGED <<feedVars, portVars>>]_vars

\* C22 witness: with a handler attached and bars observed, an Order for a
\* symbol unknown to the feed was filled at the fallback price.
C22_Witness ==
    /\ bars_attached
    /\ tick >= 1
    /\ Len(deq_log) >= 1
    /\ deq_log[1].type = "ORDER"
    /\ ~Loaded(deq_log[1].symbol)
    /\ Len(events) >= 2
    /\ events[Len(events)].type = "FILL"
    /\ events[Len(events)].fill_cost = FallbackPrice

\* The trades of symbol s recorded before the one just added, and the price of
\* the most recent of them.
EarlierTrades(s) == {i \in 1..Len(all_trades) : all_trades[i].symbol = s}
LastTradePrice(s) ==
    all_trades[CHOOSE i \in EarlierTrades(s) : \A j \in EarlierTrades(s) : j <= i].price

IsFill(e) == e.type = "FILL"
FillsHandled == SelectSeq(deq_log, IsFill)

\* C24: the trade list has one entry per Fill handled by update_fill, in fill
\* order, each with the fill's symbol, direction, quantity, price and
\* commission.
C24_OneTradePerFill ==
    /\ Len(all_trades) = Len(FillsHandled)
    /\ \A i \in 1..Len(all_trades) :
          /\ all_trades[i].symbol = FillsHandled[i].symbol
          /\ all_trades[i].direction = FillsHandled[i].direction
          /\ all_trades[i].quantity = FillsHandled[i].quantity
          /\ all_trades[i].price = FillsHandled[i].fill_cost
          /\ all_trades[i].commission = FillsHandled[i].commission

\* C24 witness: a run that handled fills of two symbols at different prices,
\* with a commission, is over.
C24_Witness ==
    /\ pc = "Finished"
    /\ fills = 2
    /\ Len(all_trades) = 2
    /\ all_trades[1].symbol # all_trades[2].symbol
    /\ all_trades[1].price # all_trades[2].price
    /\ all_trades[1].commission > 0

\* C25: current_positions[s] changes only when a Fill for symbol s is
\* processed; every other handler, and a Fill for another symbol, leaves it.
C25_PositionChangesOnlyOnFill ==
    [][\A s \in Symbols :
          current_positions'[s] # current_positions[s] =>
              /\ Len(deq_log') = Len(deq_log) + 1
              /\ Handled.type = "FILL"
              /\ Handled.symbol = s]_vars

\* C25 witness: after two bars, with their rows written, a signal, an order
\* and a fill for A handled, only A's position has changed.
C25_Witness ==
    /\ pc = "Finished"
    /\ tick >= 2
    /\ fills = 1
    /\ current_positions["A"] # 0
    /\ current_positions["B"] = 0

StrictlyRising(series) ==
    \A i \in 1..(Len(series) - 1) : series[i].adj_close < series[i + 1].adj_close

\* C26: a run of Buy-and-Hold over a single symbol with 10 daily bars whose
\* adjusted close rises strictly records exactly one trade, ends with a ledger
\* total above initial_capital, and its ledger total never falls below an
\* earlier total.
C26_RisingBuyAndHold ==
    (/\ strategy = "bah"
     /\ Symbols = {"A"}
     /\ Len(raw["A"]) = 10
     /\ StrictlyRising(raw["A"])
     /\ pc = "Finished") =>
        /\ Len(all_trades) = 1
        /\ all_holdings[Len(all_holdings)].total > InitialCapital
        /\ \A i \in 1..(Len(all_holdings) - 1) :
              all_holdings[i + 1].total >= all_holdings[i].total

\* C27: with the Moving-Average-Cross strategy (short 9, long 26) and a feed
\* of fewer than 26 bars no Signal is ever emitted, whatever the prices: no
\* Order or Fill occurs and every position row shows 0 for every symbol.
C27_MacNeedsLongWindow ==
    (strategy = "mac" /\ \A s \in Symbols : Len(raw[s]) < 26) =>
        /\ \A i \in 1..Len(enq_log) : enq_log[i].type = "MARKET"
        /\ emitted = 0
        /\ all_trades = <<>>
        /\ \A r \in 1..Len(all_positions) : \A s \in Symbols :
              all_positions[r].pos[s] = 0

\* C27 witness: a Moving-Average-Cross run over 25 rising bars is over, with
\* one ledger row per bar.
C27_Witness ==
    /\ strategy = "mac"
    /\ Len(raw["A"]) = 25
    /\ StrictlyRising(raw["A"])
    /\ pc = "Finished"
    /\ Len(all_positions) = 26
    /\ CountType(deq_log, "MARKET") = 25

\* ------------------------------------------------------------------- C28
\* C28: for a feed with zero bars, get_summary_stats on the one-row ledger
\* completes without raising and reports Total Return = 0.
Reported == stats # NoStats

ZeroBars == \A s \in Symbols : raw[s] = <<>>

C28_ZeroBarsZeroReturn ==
    (ZeroBars /\ Reported) =>
        /\ Rows = 1
        /\ stats.raised = "no"
        /\ stats.TotalReturn = "zero"

\* ------------------------------------------------------------------- C29
\* C29: every ratio metric whose denominator is exactly zero (Sharpe with
\* zero return deviation, Sortino with zero downside deviation, Calmar,
\* CAR/MDD and Recovery Factor with zero drawdown, Gain-to-Pain with no
\* losses, Profit Factor and Payoff Ratio with trades but no losing trade,
\* CAGR with zero elapsed days) yields positive infinity, never an error and
\* never an undefined value.
ZeroDrawdown == EquityRows # {} /\ \A i \in EquityRows : ~InDrawdown(i)

GuardedRatiosInfinite ==
    /\ ZeroDeviation(NegativeReturns) => stats.SortinoRatio = "inf"
    /\ ZeroDrawdown =>
          /\ stats.CalmarRatio = "inf"
          /\ stats.CarMdd = "inf"
          /\ stats.RecoveryFactor = "inf"
    /\ (ValidReturns # {} /\ NegativeReturns = {}) => stats.GainToPain = "inf"
    /\ (~NoTrades /\ Losing = {}) =>
          /\ stats.ProfitFactor = "inf"
          /\ stats.PayoffRatio = "inf"

C29_ZeroDenominatorGivesInfinity ==
    Reported =>
        /\ ZeroDeviation(ValidReturns) => stats.SharpeRatio = "inf"
        /\ ElapsedDays = 0 => stats.CAGR = "inf"
        /\ GuardedRatiosInfinite

\* ------------------------------------------------------------------- C30
\* C30: when the trade list is empty, every trade-derived metric (Win Ratio,
\* Profit Factor, Expectancy, Average Trade Net Profit, Average Winning
\* Trade, Average Losing Trade, Payoff Ratio) returns 0 and none raises.
TradeMetrics ==
    {"WinRatio", "ProfitFactor", "Expectancy", "AvgTradeNetProfit",
     "AvgWinningTrade", "AvgLosingTrade", "PayoffRatio"}

C30_NoTradesZeroMetrics ==
    (Reported /\ all_trades = <<>>) =>
        \A metric \in TradeMetrics : stats[metric] = "zero"

\* The metrics were computed after a run that had bars and traded nothing.
C30_Witness ==
    /\ Reported
    /\ all_trades = <<>>
    /\ Rows > 2
    /\ stats.Expectancy = "zero"
    /\ stats.PayoffRatio = "zero"

\* ------------------------------------------------------------------- C31
\* C31: two runs of the engine over the same feed with the same strategy,
\* initial capital and start date produce identical position and holdings
\* ledgers and identical metrics; nothing read from the wall clock reaches
\* the ledger.
SecondRunDone == previous # NoRun /\ stats # NoStats

C31_RerunIdentical ==
    SecondRunDone =>
        /\ all_positions = previous.all_positions
        /\ all_holdings = previous.all_holdings
        /\ stats = previous.stats

\* Both runs traded, at different wall-clock times: the trade records differ
\* in their timestamps.
C31_Witness ==
    /\ SecondRunDone
    /\ Len(all_holdings) > 2
    /\ all_trades # <<>>
    /\ all_trades # previous.all_trades
    /\ all_holdings = previous.all_holdings
    /\ stats = previous.stats

\* ------------------------------------------------------------------- C32
\* C32: ledger rows are in chronological order with one row per bar tick: the
\* timestamps of the rows after the seed are exactly the timestamps of the
\* successive bar ticks and strictly increase, also when the first symbol of
\* symbol_list has fewer bars than another symbol.
RowTimes(ledger) == [i \in 1..(Len(ledger) - 1) |-> ledger[i + 1].datetime]

Increasing(q) == \A i \in 1..(Len(q) - 1) : q[i] < q[i + 1]

\* The timestamps of the bar ticks so far: the calendar's first `tick` times.
TickTimes == SubSeq(Calendar, 1, Min(tick, Len(Calendar)))

C32_RowsChronological ==
    /\ Increasing(RowTimes(all_positions))
    /\ Increasing(RowTimes(all_holdings))
    /\ (pc = "Running" /\ tick <= Len(Calendar)) =>
          /\ RowTimes(all_positions) = TickTimes
          /\ RowTimes(all_holdings) = TickTimes

\* ------------------------------------------------------------------- C33
\* C33: each Signal dequeued leads to exactly one Order and then exactly one
\* Fill, and a Fill enqueues nothing: one Market event whose strategy emits one
\* Signal makes the dispatcher process exactly four events in the order
\* MARKET, SIGNAL, ORDER, FILL and then find the queue empty; whenever the
\* queue is empty the counters satisfy signals = orders = fills.
OfBar(q, b) == SelectSeq(q, LAMBDA e : e.bar = b)

Types(q) == [i \in 1..Len(q) |-> q[i].type]

\* Bar b's Market event was handled and the queue was drained after it.
Drained(b) == b < tick \/ (b = tick /\ QEmpty(events) /\ pc # "Crashed"
                           /\ CountType(deq_log, "MARKET") = tick)

C33_SignalOrderFillChain ==
    /\ CountType(enq_log, "ORDER") = CountType(deq_log, "SIGNAL")
    /\ CountType(enq_log, "FILL") = CountType(deq_log, "ORDER")
    /\ Len(enq_log) = tick + emitted + CountType(deq_log, "SIGNAL")
                        + CountType(deq_log, "ORDER")
    /\ QEmpty(events) => (signals = orders /\ orders = fills)
    /\ \A b \in 1..tick :
          (Drained(b) /\ CountType(OfBar(enq_log, b), "SIGNAL") = 1) =>
              Types(OfBar(deq_log, b)) = <<"MARKET", "SIGNAL", "ORDER", "FILL">>

C33_Witness ==
    /\ tick = 1
    /\ Drained(1)
    /\ Types(deq_log) = <<"MARKET", "SIGNAL", "ORDER", "FILL">>
    /\ signals = 1
    /\ fills = 1

\* ------------------------------------------------------------------- C34
\* C34: BuyAndHoldStrategy emits exactly one LONG Signal per tracked symbol
\* over a whole run, on the first Market event at which that symbol has at
\* least one observed bar, and no Signal of any other direction ever.
SignalsFor(s) ==
    SelectSeq(enq_log, LAMBDA e : e.type = "SIGNAL" /\ e.symbol = s)

\* Bars of s the feed has handed out after b calls of update_bars.
BarsAt(s, b) == IF HasKey(s) THEN Min(b, Len(symbol_data[s])) ELSE 0

\* Market events the dispatcher has taken, whether or not handling them raised.
MarketsTaken == CountType(deq_log, "MARKET")

SawBar(s) == {b \in 1..MarketsTaken : BarsAt(s, b) > 0}

C34_BuyAndHoldOneLong ==
    strategy = "bah" =>
        \A s \in Symbols :
            /\ \A i \in 1..Len(SignalsFor(s)) : SignalsFor(s)[i].direction = "LONG"
            /\ IF SawBar(s) = {} THEN SignalsFor(s) = <<>>
               ELSE /\ Len(SignalsFor(s)) = 1
                    /\ \A b \in SawBar(s) : SignalsFor(s)[1].bar <= b

\* ------------------------------------------------------------------- C35
\* C35: for every symbol, the Signals emitted by MovingAverageCrossStrategy
\* alternate LONG, EXIT, LONG, ... starting with LONG: a LONG is emitted only
\* while the symbol's state is OUT and with short SMA > long SMA, an EXIT only
\* while the state is LONG and with short SMA < long SMA, at most one Signal
\* per symbol per Market event, and none when the two averages are equal.

\* The adjusted closes of the last n bars of s the feed had handed out at
\* tick b.
Window(s, b, n) ==
    LET seen == SubSeq(latest_symbol_data[s], 1, BarsAt(s, b))
        last == SubSeq(seen, Len(seen) - n + 1, Len(seen))
    IN  [i \in 1..n |-> last[i].adj_close]

\* short SMA minus long SMA at tick b, times both window lengths.
SmaSpread(s, b) ==
    LongWindow * SumSeq(Window(s, b, ShortWindow))
        - ShortWindow * SumSeq(Window(s, b, LongWindow))

C35_WitnessEqual ==
    /\ strategy = "mac"
    /\ pc = "Finished"
    /\ BarsAt("A", tick) >= LongWindow
    /\ SmaSpread("A", tick) = 0
    /\ SignalsFor("A") = <<>>

\* ------------------------------------------------------------------- C36
\* C36: in every run of the engine with NaivePortfolio and
\* SimulatedExecutionHandler, for any sequence of Signals with direction
\* LONG, SHORT or EXIT, current_positions[s] never decreases and is always a
\* non-negative multiple of 100.
C36_PositionNeverDecreases ==
    [][\A s \in Symbols :
          /\ current_positions'[s] >= current_positions[s]
          /\ current_positions'[s] >= 0
          /\ current_positions'[s] % 100 = 0]_vars

\* Fills of a LONG, a SHORT and an EXIT have each raised a position.
C36_Witness ==
    /\ \E i \in 1..Len(all_trades) : all_trades[i].direction \in {"SHORT", "EXIT"}
    /\ Len(all_trades) >= 2
    /\ current_positions["A"] = 100 * Len(all_trades)

\* ------------------------------------------------------------------- C37
\* C37: in every run of the engine with NaivePortfolio and
\* SimulatedExecutionHandler driven by Signals with direction LONG, SHORT or
\* EXIT, every trade record has profit 0, so the count of profitable trades
\* (and the Win Ratio) is 0 whatever the prices.
C37_NoTradeProfit ==
    /\ \A i \in 1..Len(all_trades) : all_trades[i].profit = 0
    /\ {i \in 1..Len(all_trades) : all_trades[i].profit > 0} = {}
    /\ Reported => stats.WinRatio = "zero"

\* Two fills of the same symbol at different prices, the second an EXIT, and
\* the metrics were computed.
C37_Witness ==
    /\ Reported
    /\ Len(all_trades) = 2
    /\ all_trades[2].direction = "EXIT"
    /\ all_trades[1].price # all_trades[2].price
    /\ stats.WinRatio = "zero"

\* ------------------------------------------------------------------- C38
\* C38: each fill's commission is charged once: a Fill with commission c
\* lowers the total written in the following ledger rows by exactly c
\* compared with the same fill at commission 0 (same prices).
TradeGross(t) == FMul(SignedQuantity(t), t.price)

\* The total of row r had every fill before it been free of commission.
TotalAtNoCommission(r) ==
    LET b == r - 1
        values == [i \in 1..Len(symbol_list) |->
                     FMul(PositionBefore(symbol_list[i], b),
                          AdjCloseAt(symbol_list[i], b))]
    IN  FAdd(FSub(InitialCapital, Before(b, TradeGross)), SumSeq(values))

C38_CommissionChargedOnce ==
    \A r \in 2..Len(all_holdings) :
        all_holdings[r].total =
            FSub(TotalAtNoCommission(r), CommissionBefore(r - 1))

\* ------------------------------------------------------------------- C39
\* C39: after any sequence of fills, cash equals initial_capital minus the sum
\* over all trade records of (sign x quantity x price) minus the sum of their
\* commissions, and cumulative commission equals the sum of the trade
\* records' commissions; no operation other than update_fill changes cash or
\* cumulative commission. (NaN counts as equal to NaN.)

\* The sign update_fill gives a direction: a SELL sells, all else buys.
SignOf(d) == IF d = "SELL" THEN -1 ELSE 1

TradeAmounts ==
    [i \in 1..Len(all_trades) |->
        FMul(SignOf(all_trades[i].direction) * all_trades[i].quantity,
             all_trades[i].price)]

TradeCommissions == [i \in 1..Len(all_trades) |-> all_trades[i].commission]

CashIdentity ==
    /\ current_holdings.cash =
          FSub(FSub(InitialCapital, SumSeq(TradeAmounts)), SumSeq(TradeCommissions))
    /\ current_holdings.commission = SumSeq(TradeCommissions)

TookFill ==
    /\ Len(deq_log') = Len(deq_log) + 1
    /\ deq_log'[Len(deq_log')].type = "FILL"

C39_CashFromTrades ==
    [][/\ CashIdentity'
       /\ (\/ current_holdings'.cash # current_holdings.cash
           \/ current_holdings'.commission # current_holdings.commission)
             => TookFill]_vars

\* A buy and a sell, both with a commission, have been filled.
C39_Witness ==
    /\ Len(all_trades) = 2
    /\ all_trades[1].direction = "BUY"
    /\ all_trades[2].direction = "SELL"
    /\ all_trades[1].price # all_trades[2].price
    /\ current_holdings.commission = 2
    /\ current_holdings.cash # InitialCapital

\* ------------------------------------------------------------------- C40
\* C40: a Fill processed during the last bar of the feed changes
\* current_positions and cash but is never reflected in any ledger row: at
\* Finished the last position row still shows the positions held before that
\* bar's fills, so the final ledger row can differ from current_positions.

\* The trades of the fills of the last bar.
LastBarTrades == SelectSeq(all_trades, LAMBDA t : t.bar = tick)

LastBarQuantity(s) ==
    SumSeq([i \in 1..Len(LastBarTrades) |->
              IF LastBarTrades[i].symbol = s
              THEN SignOf(LastBarTrades[i].direction) * LastBarTrades[i].quantity
              ELSE 0])

LastBarCost ==
    SumSeq([i \in 1..Len(LastBarTrades) |->
              FAdd(FMul(SignOf(LastBarTrades[i].direction) * LastBarTrades[i].quantity,
                        LastBarTrades[i].price),
                   LastBarTrades[i].commission)])

C40_LastBarFillsNotInLedger ==
    (pc = "Finished" /\ tick >= 1) =>
        /\ Len(all_positions) = tick + 1
        /\ Len(all_holdings) = tick + 1
        /\ \A s \in Symbols :
              /\ current_positions[s] =
                    all_positions[tick + 1].pos[s] + LastBarQuantity(s)
              /\ LastBarQuantity(s) # 0 =>
                    \A r \in 1..(tick + 1) :
                        all_positions[r].pos[s] # current_positions[s]
        /\ current_holdings.cash = FSub(all_holdings[tick + 1].cash, LastBarCost)

\* The run ended with a fill in its last bar: the final row shows less than
\* is held and more cash than is left.
C40_Witness ==
    /\ pc = "Finished"
    /\ tick >= 2
    /\ LastBarTrades # <<>>
    /\ all_positions[Len(all_positions)].pos # current_positions
    /\ all_holdings[Len(all_holdings)].cash # NaN
    /\ all_holdings[Len(all_holdings)].cash > current_holdings.cash

====
